---- MODULE Spec2Model ----
(***************************************************************************)
(* State-machine model of the spatial pooler of src/src/lib.rs             *)
(* (HTMLayer<COLUMNS>) and of its driver src/src/main.rs.                   *)
(*                                                                         *)
(* f32 values are modelled as exact fractions <<n, d>> with d > 0, and     *)
(* <<0, 0>> for NaN.  Within the bounds below every value the code         *)
(* computes is a dyadic fraction (or an integer) with a numerator far       *)
(* below 2^24, so the f32 arithmetic of the code is exact on them.          *)
(***************************************************************************)
EXTENDS Integers, Sequences, FiniteSets, TLC

VARIABLES
    args,               \* the arguments of HTMLayer::new (and COLUMNS)
    status,             \* "unconstructed" | "ready" | "panicked"
    potential_radius,   \* self.potential_radius (scaled in new)
    columns,            \* self.columns, indexed 0 .. COLUMNS-1
    input,              \* the input of the latest spatial_pooling_output call
    overlap,            \* the overlap vector of the latest call
    active_columns,     \* the BitVec returned by the latest call
    calls,              \* number of spatial_pooling_output calls made
    feed,               \* the inputs the caller may present
    maxCalls            \* how many calls the caller makes at most

vars == <<args, status, potential_radius, columns, input, overlap,
          active_columns, calls, feed, maxCalls>>

----------------------------------------------------------------------------
(* Bounds of the model. *)
MaxColumns == 4
MaxInputLength == 2
MaxPotentialRadius == 2
MaxRadius == 2
MaxCalls == 3
MaxCallsLong == 12

----------------------------------------------------------------------------
(* f32 arithmetic on exact fractions. *)

Abs(x) == IF x < 0 THEN -x ELSE x

RECURSIVE GCD(_, _)
GCD(a, b) == IF b = 0 THEN a ELSE GCD(b, a % b)

NaN == <<0, 0>>
IsNaN(a) == a[2] = 0

Norm(n, d) == LET g == GCD(Abs(n), d) IN <<n \div g, d \div g>>

F(n) == <<n, 1>>

FAdd(a, b) == IF IsNaN(a) \/ IsNaN(b) THEN NaN
              ELSE Norm(a[1] * b[2] + b[1] * a[2], a[2] * b[2])

FSub(a, b) == FAdd(a, <<-b[1], b[2]>>)

FMul(a, b) == IF IsNaN(a) \/ IsNaN(b) THEN NaN
              ELSE Norm(a[1] * b[1], a[2] * b[2])

\* a / b for b >= 0.  The only zero divisor of the code is the length of an
\* empty neighbour list, whose dividend is the empty sum 0.0: 0.0 / 0.0 = NaN.
FDiv(a, b) == IF IsNaN(a) \/ IsNaN(b) \/ b[1] = 0 THEN NaN
              ELSE Norm(a[1] * b[2], a[2] * b[1])

\* Comparisons with NaN are false.
FGt(a, b) == ~IsNaN(a) /\ ~IsNaN(b) /\ a[1] * b[2] > b[1] * a[2]
FGe(a, b) == ~IsNaN(a) /\ ~IsNaN(b) /\ a[1] * b[2] >= b[1] * a[2]
FLt(a, b) == FGt(b, a)
FLe(a, b) == FGe(b, a)

Min(a, b) == IF a < b THEN a ELSE b
Max(a, b) == IF a > b THEN a ELSE b

\* a .. b-1 as a Vec (Rust's a..b, empty when a >= b).
Range(a, b) == IF b <= a THEN <<>> ELSE [j \in 1 .. (b - a) |-> a + j - 1]

\* BitVec indexing is 0-based.
Bit(bits, index) == bits[index + 1]

----------------------------------------------------------------------------
(* HTMLayer::new *)

\* Stand-in for 2^64: `x as usize` of a negative i32 wraps to 2^64 + x, which
\* is larger than every column index, radius and input length of the model.
UsizeModulus == 2 ^ 30

AsUsize(x) == x % UsizeModulus

InitialBoost == F(10)
InitialPermanence == <<1, 2>>

\* assert!(inhibition_radius > num_active_columns_per_inhibition_area)
ConfigAssertionLax(a) ==
    a.inhibition_radius >= a.num_active_columns_per_inhibition_area

ConfigAssertion(a) ==
    a.inhibition_radius > a.num_active_columns_per_inhibition_area

ScaledPotentialRadius(a) == (a.potential_radius * a.input_length) \div a.COLUMNS

InitialSynapses(i, pr, input_length) ==
    LET min == AsUsize(Min(0, i - pr))
        max == Max(i + pr, input_length)
        indices == Range(min, max)
        n == Min(Len(indices), pr)          \* zip stops at the shorter side
    IN  [j \in 1 .. n |-> <<indices[j], InitialPermanence>>]

NewColumn(i, pr, input_length) ==
    [ connected_synapses |-> InitialSynapses(i, pr, input_length),
      boost              |-> InitialBoost,
      active_duty_cycle  |-> F(0),
      overlap_duty_cycle |-> F(0) ]

ColumnIndices == 0 .. (args.COLUMNS - 1)

New ==
    /\ status = "unconstructed"
    /\ IF ~ConfigAssertion(args)
       THEN /\ status' = "panicked"
            /\ UNCHANGED <<potential_radius, columns>>
       ELSE /\ status' = "ready"
            /\ potential_radius' = ScaledPotentialRadius(args)
            /\ columns' = [i \in ColumnIndices |->
                              NewColumn(i, potential_radius', args.input_length)]
    /\ UNCHANGED <<args, input, overlap, active_columns, calls, feed, maxCalls>>

----------------------------------------------------------------------------
(* HTMLayer::neighbors *)

Neighbors(i) ==
    LET rng_min == IF i - args.inhibition_radius < 0
                   THEN 0 ELSE i - args.inhibition_radius
        rng_max == IF i + args.inhibition_radius >= args.COLUMNS
                   THEN args.COLUMNS - 1 ELSE i + args.inhibition_radius
    IN  Range(rng_min, i) \o Range(i + 1, rng_max)

----------------------------------------------------------------------------
(* HTMLayer::spatial_pooling_output: overlap *)

\* input[*input_bit_index] panics when the index is not below input.len().
InputIndexPanics(bits) ==
    \E i \in ColumnIndices :
        \E s \in 1 .. Len(columns[i].connected_synapses) :
            columns[i].connected_synapses[s][1] >= Len(bits)

RECURSIVE CountOn(_, _, _)
CountOn(synapses, bits, s) ==
    IF s > Len(synapses) THEN 0
    ELSE (IF Bit(bits, synapses[s][1]) THEN 1 ELSE 0) + CountOn(synapses, bits, s + 1)

ColumnOverlapIgnoringInput(i, bits) ==
    FMul(F(Len(columns[i].connected_synapses)), columns[i].boost)

ColumnOverlap(i, bits) ==
    FMul(F(CountOn(columns[i].connected_synapses, bits, 1)), columns[i].boost)

----------------------------------------------------------------------------
(* HTMLayer::spatial_pooling_output: inhibition *)

RECURSIVE Insert(_, _)
Insert(sorted, x) ==
    IF sorted = <<>> THEN <<x>>
    ELSE IF FLe(x, Head(sorted)) THEN <<x>> \o sorted
    ELSE <<Head(sorted)>> \o Insert(Tail(sorted), x)

RECURSIVE SortAscending(_)
SortAscending(seq) ==
    IF seq = <<>> THEN <<>> ELSE Insert(SortAscending(Tail(seq)), Head(seq))

\* The positive overlaps of the neighbours of column i, in neighbour order.
PositiveNeighborOverlaps(i, ov) ==
    LET neighbors == Neighbors(i)
    IN  SelectSeq([j \in 1 .. Len(neighbors) |-> ov[neighbors[j]]],
                  LAMBDA o : FGt(o, F(0)))

\* local_overlap after the sort.
LocalOverlap(i, ov) == SortAscending(PositiveNeighborOverlaps(i, ov))

\* The 0-based position read from local_overlap, or -1 when none is read.
KthIndex(len) ==
    LET k == args.num_active_columns_per_inhibition_area
    IN  IF len = 0 THEN -1
        ELSE IF len < k THEN 0
        ELSE Max(0, len - k)

\* local_overlap[idx] panics when idx is not below local_overlap.len().
KthIndexPanics(ov) ==
    \E i \in ColumnIndices :
        LET len == Len(PositiveNeighborOverlaps(i, ov)) IN KthIndex(len) >= len

MinLocalActivity(i, ov) ==
    LET local_overlap == LocalOverlap(i, ov)
        idx == KthIndex(Len(local_overlap))
    IN  IF idx = -1 THEN F(0) ELSE local_overlap[idx + 1]

WinsTies(o, min_local_activity) ==
    FGe(o, args.stimulus_threshold) /\ FGe(o, min_local_activity)

Wins(o, min_local_activity) ==
    FGt(o, args.stimulus_threshold) /\ FGt(o, min_local_activity)

----------------------------------------------------------------------------
(* HTMLayer::spatial_pooling_learning *)

\* The value the learning loop computes for one synapse of an active column.
\* `for (_, mut p) in &mut ...` binds p to a copy of the permanence, so the
\* value is computed and dropped: the stored permanence is not written.
LearnedPermanence(p) ==
    IF FGt(p, args.permanence_threshold)
    THEN LET q == FAdd(p, args.permanence_increment)
         IN  IF FLt(q, F(1)) THEN F(1) ELSE q
    ELSE LET q == FSub(p, args.permanence_decrement)
         IN  IF FGt(q, F(1)) THEN F(1) ELSE q

\* The value the rescue loop computes for one synapse; a copy again.
RescuedPermanence(p) == FAdd(p, args.permanence_increment)

\* connected_synapses after both loops: the copies are dropped.
SynapsesAfterLearning(synapses) == synapses

Period == F(args.period)

ActiveDutyCycleUndivided(old, active) ==
    FAdd(FMul(old, F(args.period - 1)), F(IF active THEN 1 ELSE 0))

\* update_active_duty_cycle, one column
ActiveDutyCycle(old, active) ==
    FDiv(FAdd(FMul(old, F(args.period - 1)), F(IF active THEN 1 ELSE 0)), Period)

\* update_overlap_duty_cycle, one column
OverlapDutyCycle(old, o) ==
    FDiv(FAdd(FMul(old, F(args.period - 1)), o), Period)

RECURSIVE SumDutyCycles(_, _, _)
SumDutyCycles(adc, neighbors, j) ==
    IF j > Len(neighbors) THEN F(0)
    ELSE FAdd(adc[neighbors[j]], SumDutyCycles(adc, neighbors, j + 1))

\* adc: the active duty cycles after update_active_duty_cycle.
NeighborMeanActiveDutyCycle(i, adc) ==
    LET neighbors == Neighbors(i)
    IN  FDiv(SumDutyCycles(adc, neighbors, 1), F(Len(neighbors)))

\* BoostFunction
Boost(old, own_adc, neighbor_mean) ==
    IF FGe(own_adc, neighbor_mean) THEN FAdd(old, F(1)) ELSE FSub(old, F(1))

SpatialPoolingLearning(sp_output, ov) ==
    LET adc == [i \in ColumnIndices |->
                   ActiveDutyCycle(columns[i].active_duty_cycle, sp_output[i])]
        odc == [i \in ColumnIndices |->
                   OverlapDutyCycle(columns[i].overlap_duty_cycle, ov[i])]
    IN  [i \in ColumnIndices |->
            [ connected_synapses |->
                  SynapsesAfterLearning(columns[i].connected_synapses),
              boost |-> Boost(columns[i].boost, adc[i],
                              NeighborMeanActiveDutyCycle(i, adc)),
              active_duty_cycle  |-> adc[i],
              overlap_duty_cycle |-> odc[i] ]]

----------------------------------------------------------------------------
(* HTMLayer::spatial_pooling_output, one call *)

NoVector == <<>>

SpatialPoolingOutput(bits) ==
    /\ status = "ready"
    /\ calls < maxCalls
    /\ calls' = calls + 1
    /\ input' = bits
    /\ IF InputIndexPanics(bits)
       THEN /\ status' = "panicked"
            /\ overlap' = NoVector
            /\ active_columns' = NoVector
            /\ UNCHANGED columns
       ELSE /\ overlap' = [i \in ColumnIndices |-> ColumnOverlap(i, bits)]
            /\ IF KthIndexPanics(overlap')
               THEN /\ status' = "panicked"
                    /\ active_columns' = NoVector
                    /\ UNCHANGED columns
               ELSE /\ status' = "ready"
                    /\ active_columns' =
                           [i \in ColumnIndices |->
                               Wins(overlap'[i], MinLocalActivity(i, overlap'))]
                    /\ columns' = SpatialPoolingLearning(active_columns', overlap')
    /\ UNCHANGED <<args, potential_radius, feed, maxCalls>>

Compute == \E bits \in feed : SpatialPoolingOutput(bits)

Next == New \/ Compute

----------------------------------------------------------------------------
(* Configurations and callers *)

BitVecs(len) == [1 .. len -> BOOLEAN]

\* Inputs of the configured length, one shorter and one longer.
ConstantVecs(len) == {[j \in 1 .. len |-> b] : b \in BOOLEAN}

\* Every input of the configured length, and the all-ON and all-OFF inputs
\* one bit shorter and one bit longer.
CallerInputs(input_length) ==
    BitVecs(input_length) \cup ConstantVecs(input_length - 1)
                          \cup ConstantVecs(input_length + 1)

Unconstructed(a, inputs, n) ==
    /\ args = a
    /\ status = "unconstructed"
    /\ potential_radius = 0
    /\ columns = NoVector
    /\ input = NoVector
    /\ overlap = NoVector
    /\ active_columns = NoVector
    /\ calls = 0
    /\ feed = inputs
    /\ maxCalls = n

\* The f32 arguments main.rs passes.
MainPermanenceThreshold == F(2)
MainPermanenceIncrement == F(8)
MainPermanenceDecrement == F(2)
MainStimulusThreshold == F(1)
MainMinOverlapDutyCycle == F(2)

\* Small configurations, the rejected ones (radius <= k) included.
Configurations ==
    [ COLUMNS : 1 .. MaxColumns,
      input_length : 1 .. MaxInputLength,
      num_active_columns_per_inhibition_area : 0 .. (MaxRadius - 1),
      inhibition_radius : 0 .. MaxRadius,
      potential_radius : 0 .. MaxPotentialRadius,
      permanence_threshold : {MainPermanenceThreshold},
      permanence_increment : {MainPermanenceIncrement},
      permanence_decrement : {MainPermanenceDecrement},
      stimulus_threshold : {F(-1), MainStimulusThreshold, InitialBoost},
      period : {1, 2},
      min_overlap_duty_cycle : {MainMinOverlapDutyCycle} ]

Init == \E a \in Configurations : Unconstructed(a, CallerInputs(a.input_length), MaxCalls)

Spec == Init /\ [][Next]_vars

\* Long runs of well-formed calls on the configurations that wire one synapse
\* per column.
LongConfigurations ==
    {a \in Configurations :
        /\ a.input_length = MaxInputLength
        /\ ScaledPotentialRadius(a) = 1
        /\ a.stimulus_threshold \in {F(-1), MainStimulusThreshold}}

InitLong ==
    \E a \in LongConfigurations :
        Unconstructed(a, ConstantVecs(a.input_length), MaxCallsLong)

SpecLong == InitLong /\ [][Next]_vars

----------------------------------------------------------------------------
(* src/src/main.rs *)

MainInput ==
    [j \in 1 .. 2000 |-> IF j <= 1000 THEN TRUE ELSE (j - 1) % 2 = 1]

MainCalls == 2

MainArgs ==
    [ COLUMNS |-> 2048,
      input_length |-> Len(MainInput),
      num_active_columns_per_inhibition_area |-> 8,
      inhibition_radius |-> 10,
      potential_radius |-> 10,
      permanence_threshold |-> MainPermanenceThreshold,
      permanence_increment |-> MainPermanenceIncrement,
      permanence_decrement |-> MainPermanenceDecrement,
      stimulus_threshold |-> MainStimulusThreshold,
      period |-> 4,
      min_overlap_duty_cycle |-> MainMinOverlapDutyCycle ]

\* main's arguments and their neighbours in k, period, stimulus threshold
\* and potential radius.
MainConfigurations ==
    { [MainArgs EXCEPT !.num_active_columns_per_inhibition_area = k,
                       !.period = p,
                       !.stimulus_threshold = s,
                       !.potential_radius = pr] :
        k \in {7, 8, 9}, p \in {1, 2, 4}, s \in {F(0), MainStimulusThreshold},
        pr \in {10, 20} }

InitMain == \E a \in MainConfigurations : Unconstructed(a, {MainInput}, MainCalls)

SpecMain == InitMain /\ [][Next]_vars

----------------------------------------------------------------------------
(* Properties *)

\* The latest spatial_pooling_output call returned its BitVec.
Returned == status = "ready" /\ calls > 0

AsSet(seq) == {seq[j] : j \in 1 .. Len(seq)}

Pool(i) == columns[i].connected_synapses

\* Column i's whole potential pool references OFF bits of the latest input.
PoolAllOff(i) == \A s \in 1 .. Len(Pool(i)) : ~Bit(input, Pool(i)[s][1])

\* The neighbourhood of section 4.3 of the specification:
\* [i-r, i+r] within [0, COLUMNS), without i.
SymmetricNeighborhood(i) ==
    {j \in ColumnIndices :
        /\ i - args.inhibition_radius <= j
        /\ j <= i + args.inhibition_radius
        /\ j # i}

K == args.num_active_columns_per_inhibition_area

\* C1: after construction and after any sequence of calls, every column's
\* boost is >= 0.
C1_BoostNonNegative ==
    status = "ready" => \A i \in ColumnIndices : FGe(columns[i].boost, F(0))

\* C2, as stated: after construction and after any sequence of calls, both
\* duty cycles of every column lie in [0, 1].
C2_DutyCyclesInUnitInterval ==
    status = "ready" =>
        \A i \in ColumnIndices :
            /\ FGe(columns[i].active_duty_cycle, F(0))
            /\ FLe(columns[i].active_duty_cycle, F(1))
            /\ FGe(columns[i].overlap_duty_cycle, F(0))
            /\ FLe(columns[i].overlap_duty_cycle, F(1))

\* C2, amended: after construction and after any sequence of calls, the
\* active duty cycle of every column lies in [0, 1].
C2_ActiveDutyCycleInUnitInterval ==
    status = "ready" =>
        \A i \in ColumnIndices :
            /\ FGe(columns[i].active_duty_cycle, F(0))
            /\ FLe(columns[i].active_duty_cycle, F(1))

\* A column has been active in the latest of at least two calls, so that its
\* active duty cycle has been averaged twice.
C2_Witness ==
    /\ Returned
    /\ calls >= 2
    /\ args.period = 2
    /\ \E i \in ColumnIndices :
          active_columns[i] /\ FGt(columns[i].active_duty_cycle, <<1, 2>>)

\* C3: a call whose input length differs from input_length is reported as an
\* error, returns no mask and leaves every column as it was.
C3_MismatchedInputRejected ==
    [][(calls' = calls + 1 /\ Len(input') # args.input_length)
         => (status' = "panicked" /\ active_columns' = NoVector /\ columns' = columns)]_vars

C5_ScenarioANonEmpty ==
    (args = MainArgs /\ Returned /\ input = MainInput)
        => \E i \in ColumnIndices : active_columns[i]

FMin(a, b) == IF FLt(a, b) THEN a ELSE b

\* C6: a call leaves every permanence p of every column whose overlap duty
\* cycle (after the call's update) is below min_overlap_duty_cycle at
\* min(p + permanence_increment, 1.0).
C6_RescueRaisesPermanences ==
    [][(status' = "ready" /\ calls' = calls + 1)
         => \A i \in ColumnIndices :
               FLt(columns'[i].overlap_duty_cycle, args.min_overlap_duty_cycle)
                 => \A s \in 1 .. Len(Pool(i)) :
                       columns'[i].connected_synapses[s][2] =
                           FMin(FAdd(Pool(i)[s][2], args.permanence_increment), F(1))]_vars

\* C7: a layer exists, and calls run, only with inhibition_radius > k;
\* construction with inhibition_radius <= k panics and builds nothing.
C7_RadiusExceedsK ==
    /\ (status = "ready" \/ calls > 0) => args.inhibition_radius > K
    /\ (status # "unconstructed" /\ args.inhibition_radius <= K)
          => (status = "panicked" /\ calls = 0 /\ columns = NoVector)

\* Construction was attempted with inhibition_radius <= k.
C7_Witness ==
    status = "panicked" /\ calls = 0 /\ args.inhibition_radius <= K

\* C8: with stimulus_threshold >= 0, a column whose pool references only OFF
\* bits of the input (an empty pool included) has overlap 0 and is inactive
\* in the returned mask.
C8_ZeroOverlapInactive ==
    (Returned /\ FGe(args.stimulus_threshold, F(0))) =>
        \A i \in ColumnIndices :
            PoolAllOff(i) => (overlap[i] = F(0) /\ ~active_columns[i])

\* A column with a wired pool, all of it OFF, in a call made after its boost
\* has left its initial value.
C8_Witness ==
    /\ Returned
    /\ calls >= 2
    /\ FGe(args.stimulus_threshold, F(0))
    /\ \E i \in ColumnIndices :
          /\ Len(Pool(i)) > 0
          /\ PoolAllOff(i)
          /\ ~active_columns[i]
          /\ columns[i].boost # InitialBoost

\* C9: the neighbourhood used by a call is, for every column i, the set of
\* j # i with i-r <= j <= i+r inside [0, COLUMNS).
C9_NeighborhoodSymmetric ==
    Returned => \A i \in ColumnIndices : AsSet(Neighbors(i)) = SymmetricNeighborhood(i)

\* C10: on every constructed layer a call with an input of input_length bits
\* runs to completion and returns a mask of COLUMNS bits.
C10_ComputeCompletes ==
    (calls > 0 /\ Len(input) = args.input_length)
        => (status = "ready" /\ DOMAIN active_columns = ColumnIndices)

====
